---- MODULE Spec2Model ----
(***************************************************************************)
(* Model of make_bea_regions.py: build_bea_regions(states) and the tables  *)
(* BEA_MAP and TERRITORIES it reads.                                       *)
(*                                                                         *)
(* A GeoDataFrame is a record [columns, rows, crs]: the set of its column  *)
(* names, the sequence of its rows and the reference system declared on    *)
(* its geometry column ("None" when undeclared).  A geometry is a record   *)
(* [cells, crs]: the set of coordinate cells it covers and the reference   *)
(* system those coordinates are expressed in.  The empty set of cells is   *)
(* the empty geometry (POLYGON EMPTY).                                     *)
(***************************************************************************)
EXTENDS Integers, Sequences, FiniteSets, TLC

\* ------------------------------------------------------------------ bounds

\* Longest sampled input collection (rows of the caller's GeoDataFrame).
MaxRows == 3

\* Coordinate cells a sampled input geometry may cover (1..NumCells).
NumCells == 2

\* ------------------------------------------------------------------ tables

NewEngland == {"CT", "ME", "MA", "NH", "RI", "VT"}
Mideast == {"DE", "DC", "MD", "NJ", "NY", "PA"}
GreatLakes == {"IL", "IN", "MI", "OH", "WI"}
Plains == {"IA", "KS", "MN", "MO", "NE", "ND", "SD"}
Southeast == {"AL", "AR", "FL", "GA", "KY", "LA", "MS", "NC", "SC", "TN", "VA", "WV"}
Southwest == {"AZ", "NM", "OK", "TX"}
RockyMountain == {"CO", "ID", "MT", "UT", "WY"}
FarWest == {"AK", "CA", "HI", "NV", "OR", "WA"}

\* BEA_MAP without the 'DC' entry (a row of the table lost).
BEA_MAP_NoDC ==
    [c \in NewEngland \cup (Mideast \ {"DC"}) \cup GreatLakes \cup Plains
           \cup Southeast \cup Southwest \cup RockyMountain \cup FarWest |->
        CASE c \in NewEngland -> "New England"
          [] c \in Mideast -> "Mideast"
          [] c \in GreatLakes -> "Great Lakes"
          [] c \in Plains -> "Plains"
          [] c \in Southeast -> "Southeast"
          [] c \in Southwest -> "Southwest"
          [] c \in RockyMountain -> "Rocky Mountain"
          [] c \in FarWest -> "Far West"]

\* The dict BEA_MAP: postal code -> BEA region label.
BEA_MAP ==
    [c \in NewEngland \cup Mideast \cup GreatLakes \cup Plains
           \cup Southeast \cup Southwest \cup RockyMountain \cup FarWest |->
        CASE c \in NewEngland -> "New England"
          [] c \in Mideast -> "Mideast"
          [] c \in GreatLakes -> "Great Lakes"
          [] c \in Plains -> "Plains"
          [] c \in Southeast -> "Southeast"
          [] c \in Southwest -> "Southwest"
          [] c \in RockyMountain -> "Rocky Mountain"
          [] c \in FarWest -> "Far West"]

\* The set TERRITORIES.
TERRITORIES == {"PR", "GU", "VI", "MP", "AS"}

\* The target of to_crs(4326).
WGS84 == "EPSG:4326"

\* The reference system of the Census cartographic boundary files (NAD83).
NAD83 == "EPSG:4269"

\* An undeclared reference system (GeoDataFrame.crs is None).
NoCRS == "None"

\* pandas' missing value, what Series.map gives for a key the dict lacks.
NaN == "NaN"

\* ------------------------------------------------------------------ state

VARIABLES
    gdf,          \* the caller's GeoDataFrame, the argument of build_bea_regions
    bea_map,      \* the module-level dict BEA_MAP
    territories,  \* the module-level set TERRITORIES
    states,       \* the local name `states`
    bea,          \* the local name `bea`
    pc,           \* the line build_bea_regions is at, or "returned" / "raised"
    exc,          \* the exception raised: [type, bad]
    ret           \* the GeoDataFrame returned

vars == <<gdf, bea_map, territories, states, bea, pc, exc, ret>>

\* A name not bound yet.
NoFrame == [columns |-> {}, rows |-> <<>>, crs |-> NoCRS]

\* No exception.
NoExc == [type |-> "", bad |-> <<>>]

\* ------------------------------------------------------------------ helpers

Range(s) == {s[i] : i \in DOMAIN s}

\* The labels dissolve(sort=True) orders its groups by, in sorted order.
LabelOrder ==
    <<"Far West", "Great Lakes", "Mideast", "New England", "Plains",
      "Rocky Mountain", "Southeast", "Southwest">>

\* The filter left out: every row kept.
FilterNothing(f, excl) == f

\* states[~states['STUSPS'].isin(TERRITORIES)].copy(): a new frame holding the
\* rows whose code is not excluded, in their order.
FilterTerritories(f, excl) ==
    [f EXCEPT !.rows = SelectSeq(f.rows, LAMBDA r : r.STUSPS \notin excl)]

\* states['STUSPS'].map(BEA_MAP): the label of each row, NaN where the dict
\* has no entry.
MapRegion(code, map) == IF code \in DOMAIN map THEN map[code] ELSE NaN

\* states['bea_region'] = ...: the frame with the label column set.
AssignRegion(f, map) ==
    [f EXCEPT !.columns = @ \cup {"bea_region"},
              !.rows = [i \in DOMAIN f.rows |->
                           [STUSPS |-> f.rows[i].STUSPS,
                            geometry |-> f.rows[i].geometry,
                            bea_region |-> MapRegion(f.rows[i].STUSPS, map)]]]

\* Only the first row without a label reported.
MissingCodesFirstOnly(f) ==
    LET bad == SelectSeq(f.rows, LAMBDA r : r.bea_region = NaN)
    IN  IF bad = <<>> THEN <<>> ELSE <<bad[1].STUSPS>>

\* states.loc[states['bea_region'].isna(), 'STUSPS'].tolist()
MissingCodes(f) ==
    LET bad == SelectSeq(f.rows, LAMBDA r : r.bea_region = NaN)
    IN  [i \in DOMAIN bad |-> bad[i].STUSPS]

\* The coordinate transform from a declared reference system to WGS 84: the
\* identity when the source is WGS 84 already, a datum shift otherwise.
Transform(cell, from) == IF from = WGS84 THEN cell ELSE cell + 1000

\* One geometry re-expressed in WGS 84.
Reproject(g, from) ==
    [cells |-> {Transform(c, from) : c \in g.cells}, crs |-> WGS84]

\* The members reprojected first and unioned second.
UnionAllReprojected(geoms, crs) ==
    [cells |-> UNION {Reproject(g, crs).cells : g \in geoms}, crs |-> WGS84]

\* The geometry aggregated like the other columns: one member's geometry kept.
UnionFirst(geoms, crs) ==
    [cells |-> (CHOOSE g \in geoms : TRUE).cells, crs |-> crs]

\* union_all of a group's geometries: the cells any member covers, in the
\* coordinates the members are in.
UnionAll(geoms, crs) ==
    [cells |-> UNION {g.cells : g \in geoms}, crs |-> crs]

\* The rows of a group, in frame order.
GroupRows(f, label) == SelectSeq(f.rows, LAMBDA r : r.bea_region = label)

\* A dissolve keyed by the state code: one row per input row.
DissolvePerRow(f) ==
    [columns |-> {"bea_region", "geometry", "STUSPS"},
     rows |-> [k \in DOMAIN f.rows |->
                 [bea_region |-> f.rows[k].bea_region,
                  geometry |-> f.rows[k].geometry,
                  STUSPS |-> f.rows[k].STUSPS]],
     crs |-> f.crs]

\* A dissolve that drops the groups whose union is empty.
DissolveDropEmpty(f) ==
    LET present == {r.bea_region : r \in Range(f.rows)} \ {NaN}
        full == {l \in present : \E r \in Range(f.rows) :
                                    r.bea_region = l /\ r.geometry.cells # {}}
        order == SelectSeq(LabelOrder, LAMBDA l : l \in full)
    IN  [columns |-> {"bea_region", "geometry", "STUSPS"},
         rows |-> [k \in DOMAIN order |->
                     LET g == SelectSeq(f.rows, LAMBDA r : r.bea_region = order[k])
                     IN  [bea_region |-> order[k],
                          geometry |-> [cells |-> UNION {r.geometry.cells : r \in Range(g)},
                                        crs |-> f.crs],
                          STUSPS |-> g[1].STUSPS]],
         crs |-> f.crs]

\* states.dissolve(by='bea_region', as_index=False, aggfunc='first'): one row
\* per label present (NaN dropped), sorted by label; the geometry is the union
\* of the group's geometries, every other column the group's first value.
Dissolve(f) ==
    LET present == {r.bea_region : r \in Range(f.rows)} \ {NaN}
        order == SelectSeq(LabelOrder, LAMBDA l : l \in present)
    IN  [columns |-> {"bea_region", "geometry", "STUSPS"},
         rows |-> [k \in DOMAIN order |->
                     LET g == GroupRows(f, order[k])
                     IN  [bea_region |-> order[k],
                          geometry |-> UnionAll({r.geometry : r \in Range(g)}, f.crs),
                          STUSPS |-> g[1].STUSPS]],
         crs |-> f.crs]

\* The transform applied to the first region only.
ToCrsFirstOnly(f) ==
    [f EXCEPT !.rows = [i \in DOMAIN f.rows |->
                          IF i = 1
                          THEN [f.rows[i] EXCEPT !.geometry = Reproject(@, f.crs)]
                          ELSE f.rows[i]],
              !.crs = WGS84]

\* bea.to_crs(4326) on a frame with a declared reference system: every
\* geometry of the column transformed.
ToCrs(f) ==
    [f EXCEPT !.rows = [i \in DOMAIN f.rows |->
                          [f.rows[i] EXCEPT !.geometry = Reproject(@, f.crs)]],
              !.crs = WGS84]

\* bea[['bea_region','geometry']]
SelectColumns(f) ==
    [f EXCEPT !.columns = {"bea_region", "geometry"},
              !.rows = [i \in DOMAIN f.rows |->
                          [bea_region |-> f.rows[i].bea_region,
                           geometry |-> f.rows[i].geometry]]]

\* ------------------------------------------------------------------ inputs

\* Codes the sampled inputs draw from: two states of one region, a state of
\* another, a territory, and two codes BEA_MAP does not know.
SampleCodes == {"CT", "ME", "NY", "PR", "XX", "ZZ"}

\* Reference systems an input frame may declare.
SourceCRS == {NAD83, WGS84, NoCRS}

\* Sampled geometries: empty, or one cell.
SampleGeoms(crs) ==
    {[cells |-> s, crs |-> crs] : s \in {{}} \cup {{c} : c \in 1..NumCells}}

\* Sampled frames: up to MaxRows rows with distinct codes.
IsSampleFrame(f) ==
    \E n \in 0..MaxRows, crs \in SourceCRS :
      \E codes \in [1..n -> SampleCodes], geoms \in [1..n -> SampleGeoms(crs)] :
        /\ \A i, j \in 1..n : codes[i] = codes[j] => i = j
        /\ f = [columns |-> {"STUSPS", "NAME", "geometry"},
                rows |-> [i \in 1..n |-> [STUSPS |-> codes[i], geometry |-> geoms[i]]],
                crs |-> crs]

\* Frames of a layer without the 'STUSPS' column.
UnkeyedFrames ==
    {[columns |-> {"NAME", "geometry"},
      rows |-> [i \in 1..n |-> [NAME |-> "Texas", geometry |-> [cells |-> {1}, crs |-> crs]]],
      crs |-> crs] : n \in 0..1, crs \in SourceCRS}

\* The 50 states and DC, as the Census state layer lists them.
CensusStates ==
    <<"AL", "AK", "AZ", "AR", "CA", "CO", "CT", "DE", "DC", "FL", "GA", "HI", "ID",
      "IL", "IN", "IA", "KS", "KY", "LA", "ME", "MD", "MA", "MI", "MN", "MS", "MO",
      "MT", "NE", "NV", "NH", "NJ", "NM", "NY", "NC", "ND", "OH", "OK", "OR", "PA",
      "RI", "SC", "SD", "TN", "TX", "UT", "VT", "VA", "WA", "WV", "WI", "WY">>

\* The territories the Census state layer may list after them.
CensusTerritories == <<"AS", "GU", "MP", "PR", "VI">>

\* The Census state layer: every state and DC, and some of the territories,
\* each with a polygon of its own.
CensusFrames ==
    {[columns |-> {"STUSPS", "NAME", "geometry"},
      rows |-> LET codes == CensusStates \o SelectSeq(CensusTerritories, LAMBDA t : t \in T)
               IN  [i \in DOMAIN codes |->
                      [STUSPS |-> codes[i], geometry |-> [cells |-> {100 + i}, crs |-> crs]]],
      crs |-> crs] : T \in SUBSET Range(CensusTerritories), crs \in SourceCRS}

\* ------------------------------------------------------------------ actions

Init ==
    /\ \/ IsSampleFrame(gdf)
       \/ gdf \in UnkeyedFrames \cup CensusFrames
    /\ bea_map = BEA_MAP
    /\ territories = TERRITORIES
    /\ states = gdf
    /\ bea = NoFrame
    /\ pc = "L53"
    /\ exc = NoExc
    /\ ret = NoFrame

\* Lines 53-54: the layer has no 'STUSPS' column.
RaiseKeyError ==
    /\ pc = "L53"
    /\ "STUSPS" \notin states.columns
    /\ pc' = "raised"
    /\ exc' = [type |-> "KeyError", bad |-> <<>>]
    /\ UNCHANGED <<gdf, bea_map, territories, states, bea, ret>>

\* Lines 53, 56: the column is there; the territories are filtered out into a copy.
ExcludeTerritories ==
    /\ pc = "L53"
    /\ "STUSPS" \in states.columns
    /\ states' = FilterTerritories(states, territories)
    /\ pc' = "L57"
    /\ UNCHANGED <<gdf, bea_map, territories, bea, exc, ret>>

\* The label column set on the caller's frame as well (no copy taken).
AssignRegionsInPlace ==
    /\ pc = "L57"
    /\ states' = AssignRegion(states, bea_map)
    /\ gdf' = AssignRegion(gdf, bea_map)
    /\ pc' = "L58"
    /\ UNCHANGED <<bea_map, territories, bea, exc, ret>>

\* Line 57: the label column is set on the copy.
AssignRegions ==
    /\ pc = "L57"
    /\ states' = AssignRegion(states, bea_map)
    /\ pc' = "L58"
    /\ UNCHANGED <<gdf, bea_map, territories, bea, exc, ret>>

\* Lines 58-61: some label is missing.
RaiseMissing ==
    /\ pc = "L58"
    /\ Len(MissingCodes(states)) # 0
    /\ pc' = "raised"
    /\ exc' = [type |-> "ValueError", bad |-> MissingCodes(states)]
    /\ UNCHANGED <<gdf, bea_map, territories, states, bea, ret>>

\* Lines 58-59, 63: no label is missing; the states are dissolved by label.
DissolveRegions ==
    /\ pc = "L58"
    /\ Len(MissingCodes(states)) = 0
    /\ bea' = Dissolve(states)
    /\ pc' = "L64"
    /\ UNCHANGED <<gdf, bea_map, territories, states, exc, ret>>

\* Line 64: to_crs on a frame without a reference system raises ValueError
\* ("Cannot transform naive geometries").
RaiseNaive ==
    /\ pc = "L64"
    /\ bea.crs = NoCRS
    /\ pc' = "raised"
    /\ exc' = [type |-> "ValueError", bad |-> <<>>]
    /\ UNCHANGED <<gdf, bea_map, territories, states, bea, ret>>

\* The transform run whether or not a reference system is declared.
ReprojectionUnguarded ==
    /\ pc = "L64"
    /\ bea' = ToCrs(bea)
    /\ pc' = "L65"
    /\ UNCHANGED <<gdf, bea_map, territories, states, exc, ret>>

\* Line 64: the dissolved frame is re-expressed in WGS 84.
Reprojection ==
    /\ pc = "L64"
    /\ bea.crs # NoCRS
    /\ bea' = ToCrs(bea)
    /\ pc' = "L65"
    /\ UNCHANGED <<gdf, bea_map, territories, states, exc, ret>>

\* Line 65: the label and geometry columns are returned.
Return ==
    /\ pc = "L65"
    /\ ret' = SelectColumns(bea)
    /\ pc' = "returned"
    /\ UNCHANGED <<gdf, bea_map, territories, states, bea, exc>>

Next ==
    \/ RaiseKeyError
    \/ ExcludeTerritories
    \/ AssignRegions
    \/ RaiseMissing
    \/ DissolveRegions
    \/ RaiseNaive
    \/ Reprojection
    \/ Return

Spec == Init /\ [][Next]_vars

\* ------------------------------------------------------------------ what the claims speak of

\* The input has the identifier column.
Keyed == "STUSPS" \in gdf.columns

\* The input features remaining after the exclusion filter, in input order.
Remaining ==
    IF Keyed THEN SelectSeq(gdf.rows, LAMBDA r : r.STUSPS \notin territories) ELSE <<>>

\* The input features the exclusion set names.
Excluded ==
    IF Keyed THEN SelectSeq(gdf.rows, LAMBDA r : r.STUSPS \in territories) ELSE <<>>

\* The identifiers of the remaining features that the mapping has no entry for.
Unmapped ==
    LET u == SelectSeq(Remaining, LAMBDA r : r.STUSPS \notin DOMAIN bea_map)
    IN  [i \in DOMAIN u |-> u[i].STUSPS]

\* The labels assigned to the remaining features that are mapped.
LabelsPresent ==
    {bea_map[r.STUSPS] : r \in {x \in Range(Remaining) : x.STUSPS \in DOMAIN bea_map}}

\* The cells, in source coordinates, of the remaining features with a label.
MemberCells(label) ==
    UNION {r.geometry.cells :
             r \in {x \in Range(Remaining) :
                      x.STUSPS \in DOMAIN bea_map /\ bea_map[x.STUSPS] = label}}

\* A set of source cells as it lies in the target system.
InTarget(cells) == {Transform(c, gdf.crs) : c \in cells}

\* The run has ended.
Ended == pc \in {"returned", "raised"}

\* The run ended with the error of lines 59-61.
MappingFailure == pc = "raised" /\ bea = NoFrame /\ Keyed

\* The run ended with the error of line 64.
ReprojectionFailure == pc = "raised" /\ bea # NoFrame

\* ------------------------------------------------------------------ claims

\* C1 as stated: when some remaining feature is unmapped, the run fails with a
\* MappingIncompleteError listing all the unmapped identifiers of the remaining
\* features and only those, and nothing is unioned, reprojected or returned.
C1_AsStated ==
    (Keyed /\ Len(Unmapped) > 0) =>
        /\ pc \notin {"L64", "L65", "returned"}
        /\ bea = NoFrame /\ ret = NoFrame
        /\ Ended => /\ exc.type = "MappingIncompleteError"
                    /\ exc.bad = Unmapped

\* C1 amended: when some remaining feature is unmapped, the run fails with a
\* ValueError (the only error type the code raises there) listing all the
\* unmapped identifiers of the remaining features and only those, in input
\* order, and nothing is unioned, reprojected or returned.
C1_MissingListed ==
    (Keyed /\ Len(Unmapped) > 0) =>
        /\ pc \notin {"L64", "L65", "returned"}
        /\ bea = NoFrame /\ ret = NoFrame
        /\ pc # "raised" => ENABLED Next
        /\ Ended => /\ exc.type = "ValueError"
                    /\ exc.bad = Unmapped

\* C1 witness: a run failed listing two unmapped identifiers, the input holding
\* a mapped and an excluded or further feature besides.
C1_Witness ==
    /\ pc = "raised"
    /\ Len(exc.bad) = 2
    /\ Len(gdf.rows) = 3
    /\ exc.bad[1] # exc.bad[2]

\* C2: an excluded feature is gone before the exhaustiveness check: it is
\* never reported as unmapped, the run fails for a missing label only when a
\* remaining feature is unmapped, the filtered collection holds no excluded
\* feature, and every output region lies within the remaining features' area.
C2_ExcludedIgnored ==
    Keyed =>
        /\ \A i \in DOMAIN exc.bad : exc.bad[i] \notin territories
        /\ (Len(Unmapped) = 0) => ~MappingFailure
        /\ pc # "L53" => \A r \in Range(states.rows) : r.STUSPS \notin territories
        /\ pc = "L64" =>
              \A r \in Range(bea.rows) :
                 /\ r.bea_region \in LabelsPresent
                 /\ r.geometry.cells \subseteq
                       UNION {x.geometry.cells : x \in Range(Remaining)}
        /\ \A r \in Range(ret.rows) :
              /\ r.bea_region \in LabelsPresent
              /\ r.geometry.cells \subseteq
                    InTarget(UNION {x.geometry.cells : x \in Range(Remaining)})

\* C2 witness: a run returned regions for an input holding an excluded feature
\* whose area no remaining feature covers.
C2_Witness ==
    /\ pc = "returned"
    /\ Len(ret.rows) > 0
    /\ \E x \in Range(Excluded) :
          /\ x.geometry.cells # {}
          /\ \A r \in Range(ret.rows) :
                r.geometry.cells \cap InTarget(x.geometry.cells) = {}

\* C3 as stated, for an input with a feature remaining: whenever the remaining
\* identifiers are all mapped the run succeeds, with exactly one region per
\* label present.
C3_AsStated ==
    (Keyed /\ Len(Unmapped) = 0 /\ Len(Remaining) > 0) =>
        /\ pc # "raised"
        /\ pc = "returned" =>
              /\ {r.bea_region : r \in Range(ret.rows)} = LabelsPresent
              /\ Len(ret.rows) = Cardinality(LabelsPresent)

\* C3 amended: whenever the remaining identifiers are all mapped and the input
\* declares its reference system, the run never fails and runs on until it
\* returns; what it returns holds exactly one region per label assigned to a
\* remaining feature (none twice, none without a member), and is empty when no
\* feature remains.
C3_OneRegionPerLabel ==
    (Keyed /\ Len(Unmapped) = 0 /\ gdf.crs # NoCRS) =>
        /\ pc # "raised"
        /\ pc # "returned" => ENABLED Next
        /\ pc = "returned" =>
              /\ {r.bea_region : r \in Range(ret.rows)} = LabelsPresent
              /\ Len(ret.rows) = Cardinality(LabelsPresent)
              /\ Len(Remaining) = 0 => ret.rows = <<>>

\* C3 witness: three mapped features of two labels gave two regions.
C3_Witness ==
    /\ pc = "returned"
    /\ Len(Remaining) = 3
    /\ Len(ret.rows) = 2

\* C3, the edge case reached: an input whose features are all excluded returns
\* the empty collection.
C3_EmptyReached ==
    /\ pc = "returned"
    /\ Len(gdf.rows) > 0
    /\ ret.rows = <<>>

\* C4: on success each region's footprint is the union of the footprints of
\* the remaining features with its label, the regions together cover what the
\* remaining features cover, and regions of pairwise disjoint inputs are
\* pairwise disjoint.
C4_FootprintConserved ==
    pc = "returned" =>
        /\ \A r \in Range(ret.rows) :
              r.geometry.cells = InTarget(MemberCells(r.bea_region))
        /\ UNION {r.geometry.cells : r \in Range(ret.rows)}
              = InTarget(UNION {x.geometry.cells : x \in Range(Remaining)})
        /\ (\A i, j \in DOMAIN Remaining :
                i # j => Remaining[i].geometry.cells \cap Remaining[j].geometry.cells = {})
             => \A i, j \in DOMAIN ret.rows :
                  i # j => ret.rows[i].geometry.cells \cap ret.rows[j].geometry.cells = {}

\* C4 witness: a region returned covers the two distinct cells of its two members.
C4_Witness ==
    /\ pc = "returned"
    /\ \E r \in Range(ret.rows) : Cardinality(r.geometry.cells) = 2
    /\ \A x \in Range(gdf.rows) : Cardinality(x.geometry.cells) <= 1
    /\ Len(ret.rows) = 2

\* The input is the Census state layer: the 50 states and DC, with or without
\* territories.
IsCensusLayer ==
    /\ Keyed
    /\ Len(gdf.rows) >= Len(CensusStates)
    /\ Range(CensusStates) \subseteq {r.STUSPS : r \in Range(gdf.rows)}
    /\ {r.STUSPS : r \in Range(gdf.rows)}
          \subseteq Range(CensusStates) \cup Range(CensusTerritories)

\* The built-in tables: 51 codes, the 50 states and DC, each with one of 8
\* labels, every label with a member, and no code both mapped and excluded.
TablesAsDocumented ==
    /\ DOMAIN BEA_MAP = Range(CensusStates)
    /\ Cardinality(DOMAIN BEA_MAP) = 51
    /\ Cardinality({BEA_MAP[c] : c \in DOMAIN BEA_MAP}) = 8
    /\ {BEA_MAP[c] : c \in DOMAIN BEA_MAP} = Range(LabelOrder)
    /\ DOMAIN BEA_MAP \cap TERRITORIES = {}
    /\ TERRITORIES = Range(CensusTerritories)

\* C5: the tables map each of the 51 codes to one of 8 labels, every label has
\* a member, no code is both mapped and excluded; and on the Census layer no
\* state is dropped by the filter, no mapping error is raised, and the
\* dissolve gives exactly 8 regions.
C5_EightRegions ==
    /\ bea_map = BEA_MAP /\ territories = TERRITORIES
    /\ TablesAsDocumented
    /\ IsCensusLayer =>
          /\ ~MappingFailure
          /\ pc # "L53" => {r.STUSPS : r \in Range(states.rows)} = Range(CensusStates)
          /\ pc \in {"L64", "L65", "returned"} => Len(bea.rows) = 8
          /\ pc = "returned" => /\ Len(ret.rows) = 8
                                /\ Cardinality({r.bea_region : r \in Range(ret.rows)}) = 8

\* C5 witness: the layer with all five territories was dissolved to 8 regions.
C5_Witness ==
    /\ pc = "returned"
    /\ Len(gdf.rows) = 56
    /\ Len(ret.rows) = 8

C7_AsStated ==
    (gdf.crs = NoCRS /\ Len(Remaining) > 0) =>
        /\ pc \notin {"L65", "returned"} /\ ret = NoFrame
        /\ ReprojectionFailure => exc.type = "ReprojectionError"

\* C7 amended: with the source reference system undeclared, aggregation fails
\* at the reprojection with a ValueError (the error type to_crs raises; the
\* code has no ReprojectionError) and returns no region: no geometry is ever
\* transformed or returned from an undeclared system.
C7_NaiveFails ==
    gdf.crs = NoCRS =>
        /\ pc \notin {"L65", "returned"} /\ ret = NoFrame
        /\ pc = "L64" => ENABLED Next
        /\ ReprojectionFailure => exc = [type |-> "ValueError", bad |-> <<>>]
        /\ \A r \in Range(bea.rows) : r.geometry.crs = NoCRS

\* C7 witness: a run with two dissolved regions failed at the reprojection.
C7_Witness ==
    /\ ReprojectionFailure
    /\ gdf.crs = NoCRS
    /\ Len(bea.rows) = 2

\* C8: whatever is returned is wholly in EPSG:4326: the frame declares it and
\* every region's geometry is expressed in it, whatever the source system and
\* however many regions there are.
C8_AllInTarget ==
    pc \in {"L65", "returned"} =>
        LET out == IF pc = "returned" THEN ret ELSE bea
        IN  /\ out.crs = WGS84
            /\ \A r \in Range(out.rows) :
                  /\ r.geometry.crs = WGS84
                  /\ r.geometry.cells = InTarget(MemberCells(r.bea_region))

\* C8 witness: two non-empty regions were returned from a NAD83 input.
C8_Witness ==
    /\ pc = "returned"
    /\ gdf.crs = NAD83
    /\ Len(ret.rows) = 2
    /\ \A r \in Range(ret.rows) : r.geometry.cells # {}

\* C9: no step changes the caller's collection (rows, columns, geometries,
\* reference system) or the mapping and exclusion tables.
C9_InputsUntouched ==
    [][gdf' = gdf /\ bea_map' = bea_map /\ territories' = territories]_vars

\* C9 witness: a run ended with the caller's collection still holding its
\* excluded feature and no label column, the working copy having the label
\* column and not the excluded feature.
C9_Witness ==
    /\ Ended
    /\ Keyed
    /\ Len(Excluded) > 0
    /\ "bea_region" \notin gdf.columns
    /\ "bea_region" \in states.columns
    /\ Len(states.rows) < Len(gdf.rows)
    /\ bea_map = BEA_MAP /\ territories = TERRITORIES

\* C10: the steps come in the order filter, check, union, reprojection.  A
\* union exists only once the filter has run and the check has passed; it is
\* computed from member geometries in the source system and is itself in the
\* source system until line 64; the members are never reprojected; and only
\* the unioned geometries are transformed, after all unions.
C10_StepOrder ==
    /\ (bea # NoFrame \/ pc \in {"L64", "L65", "returned"}) =>
          /\ Keyed /\ Len(Unmapped) = 0
          /\ "bea_region" \in states.columns
          /\ \A r \in Range(states.rows) : r.STUSPS \notin territories
    /\ Keyed => \A r \in Range(states.rows) : r.geometry.crs = gdf.crs
    /\ (pc = "L64" \/ ReprojectionFailure) =>
          /\ bea.crs = gdf.crs
          /\ \A r \in Range(bea.rows) :
                r.geometry = [cells |-> MemberCells(r.bea_region), crs |-> gdf.crs]
    /\ pc \in {"L65", "returned"} =>
          \A r \in Range(bea.rows) :
             r.geometry = [cells |-> InTarget(MemberCells(r.bea_region)), crs |-> WGS84]

\* C10, as steps: line 64 is entered only from the check of line 58, and
\* line 65 only from line 64.
C10_Steps ==
    [][/\ pc' = "L64" => pc = "L58"
       /\ pc' = "L65" => pc = "L64"
       /\ pc' = "L58" => pc = "L57"
       /\ pc' = "L57" => pc = "L53"]_vars

\* C10 witness: two NAD83 members were unioned, the union still in NAD83 and
\* the reprojection not yet done.
C10_Witness ==
    /\ pc = "L64"
    /\ gdf.crs = NAD83
    /\ \E r \in Range(bea.rows) :
          /\ Cardinality(r.geometry.cells) = 2
          /\ r.geometry.crs = NAD83

====
